---- MODULE Spec2Model ----
(***************************************************************************)
(* afl_mutation_chain.py: reconstruction of an AFL mutation chain from the *)
(* file names of the seeds in a queue directory.                           *)
(*                                                                         *)
(* File names are TLA+ strings and the four regular expressions are        *)
(* matched character by character.  A directory is the sequence of its     *)
(* entry names in listing order.  gen_mutation_chain's recursion is an     *)
(* explicit call stack, one frame per active call.                         *)
(***************************************************************************)
EXTENDS Integers, Sequences, FiniteSets, TLC

(***************************************************************************)
(* Bounds of the model.                                                    *)
(***************************************************************************)
\* largest number of entries in the seed directory
MaxFiles == 3
\* largest number of nested gen_mutation_chain calls that is explored
MaxDepth == 6

(***************************************************************************)
(* Characters and strings.                                                 *)
(***************************************************************************)
Digits == <<"0", "1", "2", "3", "4", "5", "6", "7", "8", "9">>

Letters == {"a", "b", "c", "d", "e", "f", "g", "h", "i", "j", "k", "l", "m",
            "n", "o", "p", "q", "r", "s", "t", "u", "v", "w", "x", "y", "z",
            "A", "B", "C", "D", "E", "F", "G", "H", "I", "J", "K", "L", "M",
            "N", "O", "P", "Q", "R", "S", "T", "U", "V", "W", "X", "Y", "Z"}

\* the i-th character of s, "" past the end
Char(s, i) == IF i >= 1 /\ i <= Len(s) THEN SubSeq(s, i, i) ELSE ""

\* \d
IsDigit(c) == \E k \in 1..10 : Digits[k] = c

\* \w
IsWord(c) == IsDigit(c) \/ c \in Letters \/ c = "_"

\* [\w:]
IsWordColon(c) == IsWord(c) \/ c = ":"

\* [+-]
IsSign(c) == c = "+" \/ c = "-"

\* str.startswith at offset i : the position after lit, 0 when s does not
\* carry lit at position i
Lit(s, i, lit) ==
    IF i >= 1 /\ i + Len(lit) - 1 <= Len(s) /\ SubSeq(s, i, i + Len(lit) - 1) = lit
    THEN i + Len(lit)
    ELSE 0

RECURSIVE SpanDigits(_, _)
\* \d* from position i, greedy : the position after the last digit
SpanDigits(s, i) == IF IsDigit(Char(s, i)) THEN SpanDigits(s, i + 1) ELSE i

RECURSIVE SpanWord(_, _)
\* \w* from position i, greedy
SpanWord(s, i) == IF IsWord(Char(s, i)) THEN SpanWord(s, i + 1) ELSE i

RECURSIVE SpanWordColon(_, _)
\* [\w:]* from position i, greedy
SpanWordColon(s, i) == IF IsWordColon(Char(s, i)) THEN SpanWordColon(s, i + 1) ELSE i

\* the text of a group that spans [i, j)
Group(s, i, j) == SubSeq(s, i, j - 1)

DigitVal(c) == CHOOSE k \in 0..9 : Digits[k + 1] = c

RECURSIVE DigitsValue(_, _, _)
\* the number that the decimal digits s[i..j] write
DigitsValue(s, i, j) ==
    IF j < i THEN 0 ELSE 10 * DigitsValue(s, i, j - 1) + DigitVal(Char(s, j))

\* int() of a string of decimal digits
ParseNat(s) == DigitsValue(s, 1, Len(s))

\* int() of a string of digits with an optional sign
ParseInt(s) ==
    IF Char(s, 1) = "-" THEN 0 - DigitsValue(s, 2, Len(s))
    ELSE IF Char(s, 1) = "+" THEN DigitsValue(s, 2, Len(s))
    ELSE ParseNat(s)

RECURSIVE DecNat(_)
\* the decimal digits of a natural number
DecNat(n) == IF n < 10 THEN Digits[n + 1] ELSE DecNat(n \div 10) \o Digits[(n % 10) + 1]

\* '%d' % n
FmtD(n) == IF n < 0 THEN "-" \o DecNat(0 - n) ELSE DecNat(n)

RECURSIVE Zeros(_)
\* k zeros
Zeros(k) == IF k <= 0 THEN "" ELSE "0" \o Zeros(k - 1)

\* s padded with zeros on the left to the width w
ZeroPad(s, w) == Zeros(w - Len(s)) \o s

\* Fmt06d with the width of '%05d'
Fmt05d(n) == ZeroPad(DecNat(n), 5)

\* '%06d' % n, for the non-negative n that int() of \d+ yields
Fmt06d(n) == ZeroPad(DecNat(n), 6)

(***************************************************************************)
(* re.match and groupdict().  A group is <<text>> when it took part in the *)
(* match and <<>> (None) when it did not.  NoMatch is the None that        *)
(* re.match returns.                                                       *)
(***************************************************************************)
NoMatch == [matched |-> FALSE]

Some(t) == <<t>>

None == <<>>

\* QUEUE_ORIG_SEED_RE.match(name)
QUEUE_ORIG_SEED_RE(name) ==
    LET a == Lit(name, 1, "id:")
        b == SpanDigits(name, a)
        c == Lit(name, b, ",orig:")
        d == SpanWord(name, c)
    IN  IF a # 0 /\ b > a /\ c # 0 /\ d > c
        THEN [matched |-> TRUE,
              groups  |-> [id        |-> Some(Group(name, a, b)),
                           orig_seed |-> Some(Group(name, c, d))]]
        ELSE NoMatch

\* QUEUE_MUTATE_SEED_RE.match(name)
QUEUE_MUTATE_SEED_RE(name) ==
    LET a  == Lit(name, 1, "id:")
        b  == SpanDigits(name, a)
        c  == Lit(name, b, ",src:")
        d  == SpanDigits(name, c)
        e  == Lit(name, d, ",op:")
        la == Lit(name, e, "havoc") # 0 \/ Lit(name, e, "splice") # 0
        f  == SpanWord(name, e)
        g  == Lit(name, f, ",pos:")
        h  == SpanDigits(name, g)
        \* the optional (?:,val:(?P<val_type>[\w:]+)?(?P<val>[+-]\d+))?
        v  == Lit(name, h, ",val:")
        w  == SpanWordColon(name, v)
        x  == IF IsSign(Char(name, w)) THEN w + 1 ELSE 0
        y  == SpanDigits(name, x)
        hasVal == v # 0 /\ x # 0 /\ y > x
    IN  IF a # 0 /\ b > a /\ c # 0 /\ d > c /\ e # 0 /\ ~la /\ f > e /\ g # 0 /\ h > g
        THEN [matched |-> TRUE,
              groups  |-> [id       |-> Some(Group(name, a, b)),
                           src      |-> Some(Group(name, c, d)),
                           op       |-> Some(Group(name, e, f)),
                           pos      |-> Some(Group(name, g, h)),
                           val_type |-> IF hasVal /\ w > v THEN Some(Group(name, v, w)) ELSE None,
                           val      |-> IF hasVal THEN Some(Group(name, w, y)) ELSE None]]
        ELSE NoMatch

\* QUEUE_MUTATE_SEED_HAVOC_RE.match(name)
QUEUE_MUTATE_SEED_HAVOC_RE(name) ==
    LET a == Lit(name, 1, "id:")
        b == SpanDigits(name, a)
        c == Lit(name, b, ",src:")
        d == SpanDigits(name, c)
        e == Lit(name, d, ",op:havoc,rep:")
        f == SpanDigits(name, e)
    IN  IF a # 0 /\ b > a /\ c # 0 /\ d > c /\ e # 0 /\ f > e
        THEN [matched |-> TRUE,
              groups  |-> [id  |-> Some(Group(name, a, b)),
                           src |-> Some(Group(name, c, d)),
                           op  |-> Some("havoc"),
                           rep |-> Some(Group(name, e, f))]]
        ELSE NoMatch

\* QUEUE_MUTATE_SEED_SPLICE_RE.match(name)
QUEUE_MUTATE_SEED_SPLICE_RE(name) ==
    LET a == Lit(name, 1, "id:")
        b == SpanDigits(name, a)
        c == Lit(name, b, ",src:")
        d == SpanDigits(name, c)
        p == Lit(name, d, "+")
        q == SpanDigits(name, p)
        e == Lit(name, q, ",op:splice,rep:")
        f == SpanDigits(name, e)
    IN  IF a # 0 /\ b > a /\ c # 0 /\ d > c /\ p # 0 /\ q > p /\ e # 0 /\ f > e
        THEN [matched |-> TRUE,
              groups  |-> [id    |-> Some(Group(name, a, b)),
                           src_1 |-> Some(Group(name, c, d)),
                           src_2 |-> Some(Group(name, p, q)),
                           op    |-> Some("splice"),
                           rep   |-> Some(Group(name, e, f))]]
        ELSE NoMatch

(***************************************************************************)
(* fix_regex_dict.                                                         *)
(***************************************************************************)
\* Maps short stage names to full stage names
OP_MAPPING ==
    [flip1   |-> "bitflip 1/1",
     flip2   |-> "bitflip 2/1",
     flip4   |-> "bitflip 4/1",
     flip8   |-> "bitflip 8/8",
     flip16  |-> "bitflip 16/8",
     flip32  |-> "bitflip 32/8",
     arith8  |-> "arith 8/8",
     arith16 |-> "arith 16/8",
     arith32 |-> "arith 32/8",
     int8    |-> "interest 8/8",
     int16   |-> "interest 16/8",
     int32   |-> "interest 32/8",
     ext_U0  |-> "user extras (over)",
     ext_UI  |-> "uexer extras (insert)",
     ext_A0  |-> "auto extras (over)",
     havoc   |-> "havoc",
     splice  |-> "splice"]

\* the keys that fix_regex_dict converts with int()
IntKeys == {"id", "src", "src_1", "src_2", "pos", "rep", "val"}

\* OP_MAPPING[mutate_dict['op']] raises KeyError
FixRaisesKeyError(groups) ==
    /\ "op" \in DOMAIN groups
    /\ groups["op"] # None
    /\ groups["op"][1] \notin DOMAIN OP_MAPPING

\* fix_regex_dict(match.groupdict()), when it does not raise
fix_regex_dict(groups) ==
    LET present == {k \in DOMAIN groups : groups[k] # None}
    IN  [k \in present |->
            IF k \in IntKeys THEN ParseInt(groups[k][1])
            ELSE IF k = "op" THEN OP_MAPPING[groups[k][1]]
            ELSE groups[k][1]]

(***************************************************************************)
(* The seed directory and find_seed.                                       *)
(***************************************************************************)
\* The file names the directories are drawn from: AFL queue entries of all
\* four shapes, two entries with the same id, entries that name themselves
\* or each other as parent, an entry with a seven-digit id, and entries
\* that do not decode.
Universe ==
    <<"id:000000,orig:seedA",
      "id:000001,src:000000,op:flip1,pos:5",
      "id:000002,src:000001,op:havoc,rep:4",
      "id:000002,src:000000,op:arith8,pos:7,val:be:-3",
      "id:000003,src:000001+000000,op:splice,rep:2",
      "id:000004,src:000002,op:int16,pos:2,val:+7,+cov",
      "id:000005,src:000008+000005,op:splice,rep:1",
      "id:000006,src:000007,op:flip2,pos:1",
      "id:000007,src:000006,op:havoc,rep:8",
      "id:000008,src:000000,op:ext_UO,pos:3",
      "id:0000001,orig:seedB",
      "id:000008,src:000000,op:havoc2,pos:1",
      "id:000009,src:000008,op:flip8,pos:0",
      "randomfile.txt">>

\* the names of Universe
Names == {Universe[i] : i \in 1..Len(Universe)}

\* the four patterns matched against every name once, as tables
OrigMatch == [name \in Names |-> QUEUE_ORIG_SEED_RE(name)]

MutateMatch == [name \in Names |-> QUEUE_MUTATE_SEED_RE(name)]

HavocMatch == [name \in Names |-> QUEUE_MUTATE_SEED_HAVOC_RE(name)]

SpliceMatch == [name \in Names |-> QUEUE_MUTATE_SEED_SPLICE_RE(name)]

\* the value of a variable that has not been assigned
Unset == [unset |-> TRUE]

\* fix_regex_dict(match.groupdict()) for a match, where it returns
Fixed(match) ==
    IF match.matched /\ ~FixRaisesKeyError(match.groups)
    THEN fix_regex_dict(match.groups)
    ELSE Unset

\* the dicts that the matches of every name are fixed to, as tables
OrigDict == [name \in Names |-> Fixed(OrigMatch[name])]

MutateDict == [name \in Names |-> Fixed(MutateMatch[name])]

HavocDict == [name \in Names |-> Fixed(HavocMatch[name])]

SpliceDict == [name \in Names |-> Fixed(SpliceMatch[name])]

RECURSIVE Ascending(_)
\* the entries of Universe with an index in S, by increasing index
Ascending(S) ==
    IF S = {} THEN <<>>
    ELSE LET m == CHOOSE x \in S : \A y \in S : x <= y
         IN  <<Universe[m]>> \o Ascending(S \ {m})

Reverse(q) == [i \in 1..Len(q) |-> q[Len(q) + 1 - i]]

\* the directory listings: os.listdir gives the entries in an arbitrary
\* order, here by increasing or by decreasing index
Listings ==
    {Ascending(S) : S \in {T \in SUBSET (1..Len(Universe)) : Cardinality(T) <= MaxFiles}}
    \cup
    {Reverse(Ascending(S)) : S \in {T \in SUBSET (1..Len(Universe)) : Cardinality(T) <= MaxFiles}}

\* name.startswith(prefix)
StartsWith(name, prefix) == Lit(name, 1, prefix) # 0

RECURSIVE FirstMatch(_, _, _)
\* glob.glob(pattern)[0] for the pattern 'prefix*' over a listing, None
\* when the list is empty
FirstMatch(listing, i, prefix) ==
    IF i > Len(listing) THEN None
    ELSE IF StartsWith(listing[i], prefix) THEN Some(listing[i])
    ELSE FirstMatch(listing, i + 1, prefix)

\* find_seed with the pattern 'id:%06d*', without the comma
find_seed_no_comma(seed_dir, seed_id) ==
    FirstMatch(seed_dir, 1, "id:" \o Fmt06d(seed_id))

\* find_seed with the pattern 'id:%05d,*'
find_seed_pad5(seed_dir, seed_id) ==
    FirstMatch(seed_dir, 1, "id:" \o Fmt05d(seed_id) \o ",")

\* find_seed(seed_dir, seed_id) : Some(path) or None
find_seed(seed_dir, seed_id) ==
    FirstMatch(seed_dir, 1, "id:" \o Fmt06d(seed_id) \o ",")

(***************************************************************************)
(* State.                                                                  *)
(***************************************************************************)
VARIABLES
    seed_dir,        \* the listing of the directory of the seed
    seed_path,       \* args.seed_path : Some(name), None when not a file
    output_format,   \* args.output_format
    pc,              \* "main", "resolve", "export", "done", "error"
    stack,           \* the active gen_mutation_chain calls, innermost last
    mutation_chain,  \* main's mutation_chain
    stdout,          \* what main has printed
    exc              \* the exception that ended the program

vars == <<seed_dir, seed_path, output_format, pc, stack, mutation_chain, stdout, exc>>

\* None as an entry of a lineage
Null == [null |-> TRUE]

\* the frame of a call gen_mutation_chain(path) that has not run yet
CallFrame(path) ==
    [path |-> path, phase |-> "call", dict |-> Unset, pend |-> <<>>, kids |-> <<>>]

Init ==
    /\ seed_dir \in Listings
    /\ seed_path \in {Some(seed_dir[i]) : i \in 1..Len(seed_dir)} \cup {None}
    /\ output_format \in {"json", "dot"}
    /\ pc = "main"
    /\ stack = <<>>
    /\ mutation_chain = Unset
    /\ stdout = <<>>
    /\ exc = "none"

(***************************************************************************)
(* gen_mutation_chain, one action for each branch of the function, one for *)
(* the recursive call and one for the return after the last recursive call.*)
(***************************************************************************)
Top == stack[Len(stack)]

\* the innermost call is at its first statement
AtCall == pc = "resolve" /\ stack # <<>> /\ Top.phase = "call"

\* the innermost call has decoded its file name and resolves its parents
AtWait == pc = "resolve" /\ stack # <<>> /\ Top.phase = "wait"

\* mutate_dict[key] = value
SetItem(mutate_dict, key, value) ==
    [k \in DOMAIN mutate_dict \cup {key} |-> IF k = key THEN value ELSE mutate_dict[k]]

\* mutate_dict.pop(key), the dict that is left
Pop(mutate_dict, key) ==
    [k \in DOMAIN mutate_dict \ {key} |-> mutate_dict[k]]

\* the innermost call returns ret : to its caller's src list, or to main
ReturnValue(ret) ==
    IF Len(stack) = 1
    THEN /\ stack' = <<>>
         /\ mutation_chain' = ret
         /\ pc' = "export"
    ELSE /\ stack' = [i \in 1..(Len(stack) - 1) |->
                        IF i = Len(stack) - 1
                        THEN [stack[i] EXCEPT !.kids = Append(@, ret)]
                        ELSE stack[i]]
         /\ UNCHANGED <<mutation_chain, pc>>

\* an exception that nothing catches : every call is abandoned
Raise(e) ==
    /\ pc' = "error"
    /\ exc' = e
    /\ stack' = <<>>
    /\ UNCHANGED <<mutation_chain, stdout>>

\* the innermost call waits for the chains of the parents in pend
Await(mutate_dict, pend) ==
    stack' = [stack EXCEPT ![Len(stack)] =
                 [path |-> Top.path, phase |-> "wait", dict |-> mutate_dict,
                  pend |-> pend, kids |-> <<>>]]

\* main, seed_path is not a file
MainNotAFile ==
    /\ pc = "main"
    /\ seed_path = None
    /\ Raise("Exception")
    /\ UNCHANGED <<seed_dir, seed_path, output_format>>

\* main, the call gen_mutation_chain(seed_path)
MainCall ==
    /\ pc = "main"
    /\ seed_path # None
    /\ pc' = "resolve"
    /\ stack' = <<CallFrame(seed_path)>>
    /\ UNCHANGED <<seed_dir, seed_path, output_format, mutation_chain, stdout, exc>>

\* EnterNone that raises for a parent that was not found
EnterNone_Raise ==
    /\ AtCall
    /\ Top.path = None
    /\ Raise("Exception")
    /\ UNCHANGED <<seed_dir, seed_path, output_format>>

\* if seed_path is None: return None
EnterNone ==
    /\ AtCall
    /\ Top.path = None
    /\ ReturnValue(Null)
    /\ UNCHANGED <<seed_dir, seed_path, output_format, stdout, exc>>

\* QUEUE_ORIG_SEED_RE matches: the end of the chain
EnterOrig ==
    /\ AtCall
    /\ Top.path # None
    /\ LET m == OrigMatch[Top.path[1]]
       IN  /\ m.matched
           /\ ReturnValue(OrigDict[Top.path[1]])
    /\ UNCHANGED <<seed_dir, seed_path, output_format, stdout, exc>>

\* QUEUE_MUTATE_SEED_RE matches
EnterMutate ==
    /\ AtCall
    /\ Top.path # None
    /\ ~OrigMatch[Top.path[1]].matched
    /\ LET m == MutateMatch[Top.path[1]]
       IN  /\ m.matched
           /\ ~FixRaisesKeyError(m.groups)
           /\ LET mutate_dict == MutateDict[Top.path[1]]
              IN  Await(mutate_dict, <<find_seed(seed_dir, mutate_dict["src"])>>)
    /\ UNCHANGED <<seed_dir, seed_path, output_format, pc, mutation_chain, stdout, exc>>

\* QUEUE_MUTATE_SEED_RE matches and OP_MAPPING has no entry for the op
EnterKeyError ==
    /\ AtCall
    /\ Top.path # None
    /\ ~OrigMatch[Top.path[1]].matched
    /\ LET m == MutateMatch[Top.path[1]]
       IN  /\ m.matched
           /\ FixRaisesKeyError(m.groups)
    /\ Raise("KeyError")
    /\ UNCHANGED <<seed_dir, seed_path, output_format>>

\* EnterHavoc that looks for the parent under the id of the file itself
EnterHavoc_OwnId ==
    /\ AtCall
    /\ Top.path # None
    /\ ~OrigMatch[Top.path[1]].matched
    /\ ~MutateMatch[Top.path[1]].matched
    /\ LET m == HavocMatch[Top.path[1]]
       IN  /\ m.matched
           /\ LET mutate_dict == HavocDict[Top.path[1]]
              IN  Await(mutate_dict, <<find_seed(seed_dir, mutate_dict["id"])>>)
    /\ UNCHANGED <<seed_dir, seed_path, output_format, pc, mutation_chain, stdout, exc>>

\* QUEUE_MUTATE_SEED_HAVOC_RE matches
EnterHavoc ==
    /\ AtCall
    /\ Top.path # None
    /\ ~OrigMatch[Top.path[1]].matched
    /\ ~MutateMatch[Top.path[1]].matched
    /\ LET m == HavocMatch[Top.path[1]]
       IN  /\ m.matched
           /\ LET mutate_dict == HavocDict[Top.path[1]]
              IN  Await(mutate_dict, <<find_seed(seed_dir, mutate_dict["src"])>>)
    /\ UNCHANGED <<seed_dir, seed_path, output_format, pc, mutation_chain, stdout, exc>>

\* EnterSplice that resolves src_2 before src_1
EnterSplice_Swapped ==
    /\ AtCall
    /\ Top.path # None
    /\ ~OrigMatch[Top.path[1]].matched
    /\ ~MutateMatch[Top.path[1]].matched
    /\ ~HavocMatch[Top.path[1]].matched
    /\ LET m == SpliceMatch[Top.path[1]]
       IN  /\ m.matched
           /\ LET mutate_dict == SpliceDict[Top.path[1]]
                  parent_seed_1 == find_seed(seed_dir, mutate_dict["src_1"])
                  parent_seed_2 == find_seed(seed_dir, mutate_dict["src_2"])
              IN  Await(Pop(Pop(mutate_dict, "src_1"), "src_2"),
                        <<parent_seed_2, parent_seed_1>>)
    /\ UNCHANGED <<seed_dir, seed_path, output_format, pc, mutation_chain, stdout, exc>>

\* QUEUE_MUTATE_SEED_SPLICE_RE matches
EnterSplice ==
    /\ AtCall
    /\ Top.path # None
    /\ ~OrigMatch[Top.path[1]].matched
    /\ ~MutateMatch[Top.path[1]].matched
    /\ ~HavocMatch[Top.path[1]].matched
    /\ LET m == SpliceMatch[Top.path[1]]
       IN  /\ m.matched
           /\ LET mutate_dict == SpliceDict[Top.path[1]]
                  parent_seed_1 == find_seed(seed_dir, mutate_dict["src_1"])
                  parent_seed_2 == find_seed(seed_dir, mutate_dict["src_2"])
              IN  Await(Pop(Pop(mutate_dict, "src_1"), "src_2"),
                        <<parent_seed_1, parent_seed_2>>)
    /\ UNCHANGED <<seed_dir, seed_path, output_format, pc, mutation_chain, stdout, exc>>

\* EnterNoMatch that returns None for a name that no pattern matches
EnterNoMatch_ReturnsNone ==
    /\ AtCall
    /\ Top.path # None
    /\ ~OrigMatch[Top.path[1]].matched
    /\ ~MutateMatch[Top.path[1]].matched
    /\ ~HavocMatch[Top.path[1]].matched
    /\ ~SpliceMatch[Top.path[1]].matched
    /\ ReturnValue(Null)
    /\ UNCHANGED <<seed_dir, seed_path, output_format, stdout, exc>>

\* no pattern matches: raise Exception('Failed to find parent seed ...')
EnterNoMatch ==
    /\ AtCall
    /\ Top.path # None
    /\ ~OrigMatch[Top.path[1]].matched
    /\ ~MutateMatch[Top.path[1]].matched
    /\ ~HavocMatch[Top.path[1]].matched
    /\ ~SpliceMatch[Top.path[1]].matched
    /\ Raise("Exception")
    /\ UNCHANGED <<seed_dir, seed_path, output_format>>

\* Recurse that does not call for a file that an active call is on
Recurse_Visited ==
    /\ AtWait
    /\ Len(Top.kids) < Len(Top.pend)
    /\ Len(stack) < MaxDepth
    /\ IF \E i \in 1..Len(stack) : stack[i].path = Top.pend[Len(Top.kids) + 1]
       THEN stack' = [stack EXCEPT ![Len(stack)].kids = Append(@, Null)]
       ELSE stack' = Append(stack, CallFrame(Top.pend[Len(Top.kids) + 1]))
    /\ UNCHANGED <<seed_dir, seed_path, output_format, pc, mutation_chain, stdout, exc>>

\* the recursive call gen_mutation_chain(parent_seed) for the next parent
Recurse ==
    /\ AtWait
    /\ Len(Top.kids) < Len(Top.pend)
    /\ Len(stack) < MaxDepth
    /\ stack' = Append(stack, CallFrame(Top.pend[Len(Top.kids) + 1]))
    /\ UNCHANGED <<seed_dir, seed_path, output_format, pc, mutation_chain, stdout, exc>>

\* Return that leaves the parents that were not found out of the src list
Return_SkipsNone ==
    /\ AtWait
    /\ Len(Top.kids) = Len(Top.pend)
    /\ ReturnValue(SetItem(Top.dict, "src", SelectSeq(Top.kids, LAMBDA n : n # Null)))
    /\ UNCHANGED <<seed_dir, seed_path, output_format, stdout, exc>>

\* mutate_dict['src'] = [...]; return mutate_dict
Return ==
    /\ AtWait
    /\ Len(Top.kids) = Len(Top.pend)
    /\ ReturnValue(SetItem(Top.dict, "src", Top.kids))
    /\ UNCHANGED <<seed_dir, seed_path, output_format, stdout, exc>>

(***************************************************************************)
(* create_edge_label and create_graph.  A graph is the set of its nodes    *)
(* and the set of its labelled edges, at most one edge for each pair of    *)
(* nodes.  A node is keyed by a seed name or by an id.                     *)
(***************************************************************************)
\* create_edge_label that leaves val_type out
create_edge_label_no_val_type(mutate_dict) ==
    LET l0 == "op: " \o mutate_dict["op"]
        l1 == IF "pos" \in DOMAIN mutate_dict
              THEN l0 \o ", pos: " \o FmtD(mutate_dict["pos"])
              ELSE l0
        l2 == IF "val" \in DOMAIN mutate_dict
              THEN l1 \o ", val: " \o FmtD(mutate_dict["val"])
              ELSE l1
        l3 == IF "rep" \in DOMAIN mutate_dict
              THEN l2 \o ", rep: " \o FmtD(mutate_dict["rep"])
              ELSE l2
    IN  l3

\* create_edge_label(mutate_dict)
create_edge_label(mutate_dict) ==
    LET l0 == "op: " \o mutate_dict["op"]
        l1 == IF "pos" \in DOMAIN mutate_dict
              THEN l0 \o ", pos: " \o FmtD(mutate_dict["pos"])
              ELSE l0
        l2 == IF "val" \in DOMAIN mutate_dict
              THEN l1 \o ", val: "
                      \o (IF "val_type" \in DOMAIN mutate_dict
                          THEN mutate_dict["val_type"] ELSE "")
                      \o FmtD(mutate_dict["val"])
              ELSE l1
        l3 == IF "rep" \in DOMAIN mutate_dict
              THEN l2 \o ", rep: " \o FmtD(mutate_dict["rep"])
              ELSE l2
    IN  l3

\* the graph argument that was not passed (graph=None)
NoGraph == [none |-> TRUE]

\* nx.DiGraph()
EmptyGraph == [nodes |-> {}, edges |-> {}]

\* the node of a seed name, the node of an id
SeedKey(orig_seed) == [seed |-> orig_seed]

IdKey(id) == [id |-> id]

\* 'not graph' : None, or a graph without nodes
NotGraph(graph) == graph = NoGraph \/ graph.nodes = {}

\* graph.add_edge(u, v, label=label) : an edge that exists gets the label
add_edge(graph, u, v, label) ==
    [nodes |-> graph.nodes \cup {u, v},
     edges |-> {e \in graph.edges : ~(e.u = u /\ e.v = v)}
               \cup {[u |-> u, v |-> v, label |-> label]}]

RECURSIVE create_graph(_, _)
RECURSIVE GraphLoop(_, _, _)
\* the body of 'for src in mutation_chain["src"]' from the k-th entry on,
\* over the graph as the entries before it left it
GraphLoop(chain, k, graph) ==
    IF k > Len(chain["src"]) THEN [exc |-> "none", graph |-> graph]
    ELSE LET src   == chain["src"][k]
             label == "\"" \o create_edge_label(chain) \o "\""
         IN  IF src = Null
             THEN \* 'orig_seed' in None
                  [exc |-> "TypeError", graph |-> graph]
             ELSE IF "orig_seed" \in DOMAIN src
             THEN GraphLoop(chain, k + 1,
                            add_edge(graph, SeedKey(src["orig_seed"]),
                                     IdKey(chain["id"]), label))
             ELSE LET g1 == add_edge(graph, IdKey(src["id"]),
                                     IdKey(chain["id"]), label)
                      r  == create_graph(src, g1)
                  IN  IF r.exc # "none" THEN r
                      \* the callee has changed the caller's graph object
                      \* unless it made a graph of its own
                      ELSE GraphLoop(chain, k + 1,
                                     IF NotGraph(g1) THEN g1 ELSE r.graph)

\* create_graph(mutation_chain, graph) : the exception it raises, if any,
\* and the graph it returns
create_graph(chain, graph) ==
    LET g0 == IF NotGraph(graph) THEN EmptyGraph ELSE graph
    IN  IF "src" \notin DOMAIN chain
        THEN \* mutation_chain['src']
             [exc |-> "KeyError", graph |-> g0]
        ELSE GraphLoop(chain, 1, g0)

(***************************************************************************)
(* main, after gen_mutation_chain has returned.                            *)
(***************************************************************************)
\* print(json.dumps(mutation_chain))
PrintJson ==
    /\ pc = "export"
    /\ output_format = "json"
    /\ stdout' = Append(stdout, [json |-> mutation_chain])
    /\ pc' = "done"
    /\ UNCHANGED <<seed_dir, seed_path, output_format, stack, mutation_chain, exc>>

\* write_dot(create_graph(mutation_chain), sys.stdout)
WriteDot ==
    /\ pc = "export"
    /\ output_format = "dot"
    /\ LET r == create_graph(mutation_chain, NoGraph)
       IN  /\ r.exc = "none"
           /\ stdout' = Append(stdout, [dot |-> r.graph])
    /\ pc' = "done"
    /\ UNCHANGED <<seed_dir, seed_path, output_format, stack, mutation_chain, exc>>

\* create_graph(mutation_chain) raises
WriteDotRaise ==
    /\ pc = "export"
    /\ output_format = "dot"
    /\ LET r == create_graph(mutation_chain, NoGraph)
       IN  /\ r.exc # "none"
           /\ Raise(r.exc)
    /\ UNCHANGED <<seed_dir, seed_path, output_format>>

Next ==
    \/ MainNotAFile
    \/ MainCall
    \/ EnterNone
    \/ EnterOrig
    \/ EnterMutate
    \/ EnterKeyError
    \/ EnterHavoc
    \/ EnterSplice
    \/ EnterNoMatch
    \/ Recurse
    \/ Return
    \/ PrintJson
    \/ WriteDot
    \/ WriteDotRaise

Spec == Init /\ [][Next]_vars

\* the interpreter runs the program to its end
FairSpec == Spec /\ WF_vars(Next)

(***************************************************************************)
(* What a file name says, and what the directory holds for it.             *)
(***************************************************************************)
\* the pattern that gen_mutation_chain decodes name with, in the order it
\* tries them; "bad" when the call raises
ShapeOf ==
    [name \in Names |->
        IF OrigMatch[name].matched THEN "orig"
        ELSE IF MutateMatch[name].matched
             THEN IF FixRaisesKeyError(MutateMatch[name].groups) THEN "bad" ELSE "mutate"
        ELSE IF HavocMatch[name].matched THEN "havoc"
        ELSE IF SpliceMatch[name].matched THEN "splice"
        ELSE "bad"]

Shape(name) == ShapeOf[name]

\* the record that name decodes to, for a name that decodes
RecordOf ==
    [name \in Names |->
        IF ShapeOf[name] = "orig" THEN OrigDict[name]
        ELSE IF ShapeOf[name] = "mutate" THEN MutateDict[name]
        ELSE IF ShapeOf[name] = "havoc" THEN HavocDict[name]
        ELSE IF ShapeOf[name] = "splice" THEN SpliceDict[name]
        ELSE Unset]

Record(name) == RecordOf[name]

\* the parent identifiers written in name, in the order of the src list
RawParents(name) ==
    IF Shape(name) \in {"mutate", "havoc"} THEN <<Record(name)["src"]>>
    ELSE IF Shape(name) = "splice" THEN <<Record(name)["src_1"], Record(name)["src_2"]>>
    ELSE <<>>

\* the entries of the directory named 'id:<n as six digits>,...'
FilesFor(n) ==
    {i \in 1..Len(seed_dir) : StartsWith(seed_dir[i], "id:" \o Fmt06d(n) \o ",")}

\* the files that the parent identifiers of name are located as
ParentFiles(name) ==
    {seed_dir[CHOOSE i \in FilesFor(RawParents(name)[k]) : \A j \in FilesFor(RawParents(name)[k]) : i <= j] :
        k \in {k \in 1..Len(RawParents(name)) : FilesFor(RawParents(name)[k]) # {}}}

RECURSIVE Closure(_, _)
\* names and the files located from them in at most n generations
Closure(names, n) ==
    IF n = 0 THEN names
    ELSE Closure(names \cup UNION {ParentFiles(f) : f \in names}, n - 1)

\* the located ancestors of name
Ancestors(name) == Closure(ParentFiles(name), Len(seed_dir))

\* the file the program was started on
SeedName == seed_path[1]

\* the program was started on a file of the directory
Started == seed_path # None

\* the calls of gen_mutation_chain that have returned and whose value is
\* still held, each with its argument
Returned ==
    (IF mutation_chain # Unset THEN {<<seed_path, mutation_chain>>} ELSE {})
    \cup
    UNION {{<<stack[i].pend[k], stack[i].kids[k]>> : k \in 1..Len(stack[i].kids)} :
              i \in 1..Len(stack)}

(***************************************************************************)
(* C10  find_seed.                                                         *)
(***************************************************************************)
\* the parents that the waiting calls have located: the file name of the
\* call, the position of the parent and what find_seed returned for it
Located ==
    UNION {{[child |-> stack[i].path[1], k |-> k, found |-> stack[i].pend[k]] :
               k \in 1..Len(stack[i].pend)} :
              i \in {j \in 1..Len(stack) : stack[j].phase = "wait"}}

\* the parents that have been resolved to a node
ResolvedParents ==
    UNION {{[child |-> stack[i].path[1], k |-> k, node |-> stack[i].kids[k]] :
               k \in 1..Len(stack[i].kids)} :
              i \in 1..Len(stack)}

\* the entries whose name begins with 'id:' and n as six digits, whatever
\* follows the digits
BeginsWithId(n) ==
    {i \in 1..Len(seed_dir) : StartsWith(seed_dir[i], "id:" \o Fmt06d(n))}

\* C10 as stated: find_seed(dir, n) returns not-found exactly when no
\* entry of dir has a name beginning with 'id:' followed by n as a
\* zero-padded 6-digit decimal, and otherwise the first such entry, and
\* the node that the entry resolves to has the id n.
C10_AsStated ==
    /\ \A l \in Located :
           LET n == RawParents(l.child)[l.k]
           IN  /\ (l.found = None) <=> (BeginsWithId(n) = {})
               /\ l.found # None =>
                      \E i \in BeginsWithId(n) :
                          /\ l.found = Some(seed_dir[i])
                          /\ \A j \in BeginsWithId(n) : i <= j
    /\ \A r \in ResolvedParents :
           r.node # Null => r.node["id"] = RawParents(r.child)[r.k]

\* C10: find_seed(dir, n) returns not-found exactly when no entry of dir
\* has a name beginning with 'id:', n as a zero-padded 6-digit decimal and
\* a comma; otherwise it returns the first such entry in listing order, and
\* the node that the entry resolves to has the id n.
C10_FindSeed ==
    /\ \A l \in Located :
           LET n == RawParents(l.child)[l.k]
           IN  /\ (l.found = None) <=> (FilesFor(n) = {})
               /\ l.found # None =>
                      \E i \in FilesFor(n) :
                          /\ l.found = Some(seed_dir[i])
                          /\ \A j \in FilesFor(n) : i <= j
    /\ \A r \in ResolvedParents :
           r.node # Null => r.node["id"] = RawParents(r.child)[r.k]

\* a parent that is the second of two entries with its id has been resolved
C10_Witness ==
    \E r \in ResolvedParents :
        /\ r.node # Null
        /\ Cardinality(FilesFor(RawParents(r.child)[r.k])) = 2

(***************************************************************************)
(* C1  chains of single-parent files.                                      *)
(***************************************************************************)
\* the id written in a name that decodes
IdOf(name) == Record(name)["id"]

\* the entries that decode and carry the id n
FilesWithId(n) ==
    {i \in 1..Len(seed_dir) : Shape(seed_dir[i]) # "bad" /\ IdOf(seed_dir[i]) = n}

\* name is written the way AFL writes it: the id as six digits
Canonical(name) == StartsWith(name, "id:" \o Fmt06d(IdOf(name)) \o ",")

\* the one file that the src id of a single-parent name names
PreviousFile(name) == seed_dir[CHOOSE i \in FilesWithId(RawParents(name)[1]) : TRUE]

\* the src id of name names exactly one file, and that file is present
HasPreviousFile(name) ==
    /\ Shape(name) \in {"mutate", "havoc"}
    /\ Cardinality(FilesWithId(RawParents(name)[1])) = 1
    /\ Canonical(PreviousFile(name))

RECURSIVE ChainLength(_, _)
\* N when name is mutation_N of a chain origin -> mutation_1 -> ... of
\* single-parent files that are all present, -1 when it is not; n bounds
\* the files followed
ChainLength(name, n) ==
    IF Shape(name) = "orig" THEN 0
    ELSE IF n > 0 /\ HasPreviousFile(name)
    THEN LET rest == ChainLength(PreviousFile(name), n - 1)
         IN  IF rest < 0 THEN -1 ELSE rest + 1
    ELSE -1

RECURSIVE NestedChain(_, _, _)
\* node is the origin record of name (N = 0), or a node with the id of
\* name whose src list has one entry, nested N - 1 levels deep over the
\* previous file
NestedChain(node, name, N) ==
    IF N = 0
    THEN /\ DOMAIN node = {"id", "orig_seed"}
         /\ node["id"] = IdOf(name)
    ELSE /\ {"id", "op", "src"} \subseteq DOMAIN node
         /\ node["id"] = IdOf(name)
         /\ Len(node["src"]) = 1
         /\ NestedChain(node["src"][1], PreviousFile(name), N - 1)

\* C1: when the seed is mutation_N of a chain of single-parent files that
\* are all present, gen_mutation_chain returns, and what it returns is
\* nested exactly N levels deep with the origin record innermost.
C1_ChainDepth ==
    Started /\ ChainLength(SeedName, Len(seed_dir)) >= 0 =>
        /\ ~(pc = "error" /\ mutation_chain = Unset)
        /\ mutation_chain # Unset =>
               NestedChain(mutation_chain, SeedName, ChainLength(SeedName, Len(seed_dir)))

\* the chain of a seed two mutations away from its origin has been resolved
C1_Witness ==
    /\ Started
    /\ ChainLength(SeedName, Len(seed_dir)) = 2
    /\ mutation_chain # Unset

(***************************************************************************)
(* C2  a parent that is not in the directory.                              *)
(***************************************************************************)
\* the file that the k-th parent identifier of name is located as
ParentFile(name, k) ==
    seed_dir[CHOOSE i \in FilesFor(RawParents(name)[k]) :
                 \A j \in FilesFor(RawParents(name)[k]) : i <= j]

\* the fields of a node but its src list
OwnFields(node) == [f \in DOMAIN node \ {"src"} |-> node[f]]

\* the fields of the record of a name but its parent identifiers
OwnFieldsOf(name) ==
    [f \in DOMAIN Record(name) \ {"src", "src_1", "src_2"} |-> Record(name)[f]]

RECURSIVE NullAtMissing(_, _)
\* node is the lineage of name: it carries the fields decoded from name,
\* its src list has null where the directory has no file for the parent
\* identifier, and the lineage of the located file elsewhere
NullAtMissing(node, name) ==
    /\ node # Null
    /\ OwnFields(node) = OwnFieldsOf(name)
    /\ Shape(name) # "orig" =>
           /\ "src" \in DOMAIN node
           /\ Len(node["src"]) = Len(RawParents(name))
           /\ \A k \in 1..Len(RawParents(name)) :
                  IF FilesFor(RawParents(name)[k]) = {}
                  THEN node["src"][k] = Null
                  ELSE NullAtMissing(node["src"][k], ParentFile(name, k))

\* some file among the seed and its located ancestors does not decode
BadInLineage == \E f \in {SeedName} \cup Ancestors(SeedName) : Shape(f) = "bad"

\* a parent identifier of name, or of a located ancestor of name, has no
\* file in the directory
MissingInLineage ==
    \E f \in {SeedName} \cup Ancestors(SeedName) :
        \E k \in 1..Len(RawParents(f)) : FilesFor(RawParents(f)[k]) = {}

\* C2: a parent identifier without a file in the directory raises no
\* error (gen_mutation_chain raises only for a file that does not decode),
\* its entry in the src list of its child is null, and the nodes above it
\* are resolved as they are when the file exists.
C2_MissingParentIsNull ==
    Started =>
        /\ pc = "error" /\ mutation_chain = Unset => BadInLineage
        /\ mutation_chain # Unset => NullAtMissing(mutation_chain, SeedName)

\* a lineage has been returned whose missing link is the parent of a
\* located parent of the seed
C2_Witness ==
    /\ Started
    /\ mutation_chain # Unset
    /\ \E f \in ParentFiles(SeedName) :
           \E k \in 1..Len(RawParents(f)) : FilesFor(RawParents(f)[k]) = {}

(***************************************************************************)
(* C6  splice.                                                             *)
(***************************************************************************)
\* node is what the parent identifier n resolves to: null when the
\* directory has no file for n, a node with the id n when it has
ResolvedAs(node, n) ==
    IF FilesFor(n) = {} THEN node = Null
    ELSE node # Null /\ node["id"] = n

\* C6: the node returned for a splice file has a src list of exactly two
\* entries, what src_1 resolves to and then what src_2 resolves to, and
\* has neither a src_1 nor a src_2 field.
C6_SpliceOrder ==
    \A r \in Returned :
        r[1] # None /\ Shape(r[1][1]) = "splice" =>
            /\ "src" \in DOMAIN r[2]
            /\ Len(r[2]["src"]) = 2
            /\ ResolvedAs(r[2]["src"][1], RawParents(r[1][1])[1])
            /\ ResolvedAs(r[2]["src"][2], RawParents(r[1][1])[2])
            /\ "src_1" \notin DOMAIN r[2]
            /\ "src_2" \notin DOMAIN r[2]

\* a splice file has been resolved whose two parents were both found, the
\* first with the larger id
C6_Witness ==
    \E r \in Returned :
        /\ r[1] # None
        /\ Shape(r[1][1]) = "splice"
        /\ r[2]["src"][1] # Null
        /\ r[2]["src"][2] # Null
        /\ r[2]["src"][1]["id"] > r[2]["src"][2]["id"]

(***************************************************************************)
(* C7  the shape of a lineage.                                             *)
(***************************************************************************)
RECURSIVE WellShaped(_)
\* node is null, an origin record with id and orig_seed only, or a record
\* with an op whose src list has two well-shaped entries for a splice and
\* one for any other op
WellShaped(node) ==
    \/ node = Null
    \/ DOMAIN node = {"id", "orig_seed"}
    \/ /\ {"id", "op", "src"} \subseteq DOMAIN node
       /\ "orig_seed" \notin DOMAIN node
       /\ Len(node["src"]) = (IF node["op"] = "splice" THEN 2 ELSE 1)
       /\ \A k \in 1..Len(node["src"]) : WellShaped(node["src"][k])

\* C7: in every value that gen_mutation_chain returns, at every depth, a
\* single-parameter or havoc node has a src list of one entry, a splice
\* node one of two entries, every entry is null or a node, and an origin
\* node has only id and orig_seed.
C7_LineageShape == \A r \in Returned : WellShaped(r[2])

\* a splice with a mutation and an origin as parents has been returned
C7_Witness ==
    \E r \in Returned :
        /\ r[2] # Null
        /\ "src" \in DOMAIN r[2]
        /\ Len(r[2]["src"]) = 2
        /\ r[2]["src"][1] # Null
        /\ "src" \in DOMAIN r[2]["src"][1]
        /\ r[2]["src"][2] # Null
        /\ "orig_seed" \in DOMAIN r[2]["src"][2]

(***************************************************************************)
(* C8 and C3  the graph.                                                   *)
(***************************************************************************)
RECURSIVE SubNodes(_)
\* the nodes of a lineage, at every depth
SubNodes(node) ==
    IF node = Null THEN {}
    ELSE IF "src" \notin DOMAIN node THEN {node}
    ELSE {node} \cup UNION {SubNodes(node["src"][k]) : k \in 1..Len(node["src"])}

RECURSIVE AllFound(_)
\* no entry of a src list of the lineage is null
AllFound(node) ==
    /\ node # Null
    /\ "src" \in DOMAIN node => \A k \in 1..Len(node["src"]) : AllFound(node["src"][k])

\* key(p): the orig_seed of an origin, the id of any other node
Key(p) == IF "orig_seed" \in DOMAIN p THEN SeedKey(p["orig_seed"]) ELSE IdKey(p["id"])

\* the parts of the label of the edges into n, in their order
LabelParts(n) ==
    <<"op: " \o n["op"]>>
    \o (IF "pos" \in DOMAIN n THEN <<", pos: " \o FmtD(n["pos"])>> ELSE <<>>)
    \o (IF "val" \in DOMAIN n
        THEN <<", val: " \o (IF "val_type" \in DOMAIN n THEN n["val_type"] ELSE "")
                         \o FmtD(n["val"])>>
        ELSE <<>>)
    \o (IF "rep" \in DOMAIN n THEN <<", rep: " \o FmtD(n["rep"])>> ELSE <<>>)

RECURSIVE Joined(_)
Joined(parts) == IF parts = <<>> THEN "" ELSE Head(parts) \o Joined(Tail(parts))

\* the edges (key(p), n.id) over the non-origin nodes n of a lineage and
\* the non-null entries p of their src lists, labelled from n
EdgesOf(lineage) ==
    UNION {{[u     |-> Key(n["src"][k]),
             v     |-> IdKey(n["id"]),
             label |-> "\"" \o Joined(LabelParts(n)) \o "\""] :
               k \in {j \in 1..Len(n["src"]) : n["src"][j] # Null}} :
              n \in {m \in SubNodes(lineage) : "src" \in DOMAIN m}}

\* the graph that has been written
Written == stdout[1].dot

\* C8: for a lineage in which every parent was found, the graph that
\* create_graph builds has exactly the edges (key(p), n.id) over the
\* non-origin nodes n and their parents p, key(p) the orig_seed of an
\* origin and the id of any other node, each labelled with the quoted
\* 'op: ..' of n followed by its pos, val and rep parts where n has them.
\* (create_graph builds a graph when the lineage has a src list.)
C8_GraphEdges ==
    /\ output_format = "dot"
    /\ mutation_chain # Unset
    /\ AllFound(mutation_chain)
    /\ "src" \in DOMAIN mutation_chain
    => /\ pc # "error"
       /\ pc = "done" =>
              /\ Written.edges = EdgesOf(mutation_chain)
              /\ Written.nodes = {e.u : e \in Written.edges} \cup {e.v : e \in Written.edges}

\* the graph of a splice of a mutation and an origin has been written: an
\* edge from a seed name, an edge from an id, three edges in all
C8_Witness ==
    /\ pc = "done"
    /\ output_format = "dot"
    /\ Cardinality(Written.edges) = 3
    /\ \E e \in Written.edges : "seed" \in DOMAIN e.u
    /\ \E e \in Written.edges : "id" \in DOMAIN e.u

\* C3: for every lineage that gen_mutation_chain returns, also an origin
\* record and a lineage with a null entry, the graph export completes
\* without error, and origins and null entries add no edges of their own.
C3_GraphExportCompletes ==
    mutation_chain # Unset =>
        /\ pc # "error"
        /\ pc = "done" /\ output_format = "dot" =>
               Written.edges = EdgesOf(mutation_chain)

(***************************************************************************)
(* C4  a file name that does not decode.                                   *)
(***************************************************************************)
\* the seed or a located ancestor of it is its own located ancestor
CyclicLineage == \E f \in {SeedName} \cup Ancestors(SeedName) : f \in Ancestors(f)

\* C4: when the name of the seed or of a located ancestor matches none of
\* the patterns or carries an op that OP_MAPPING does not have, no lineage
\* is returned and nothing is printed, in either output format, and the
\* resolution ends with the exception unless it runs round a cycle.
C4_UndecodableFails ==
    /\ [](Started /\ BadInLineage => mutation_chain = Unset /\ stdout = <<>>)
    /\ (pc = "main" /\ Started /\ BadInLineage /\ ~CyclicLineage)
           ~> (pc = "error" /\ exc \in {"Exception", "KeyError"})

\* the resolution has failed on a located parent of a seed that decodes
C4_Witness ==
    /\ Started
    /\ Shape(SeedName) # "bad"
    /\ \E f \in ParentFiles(SeedName) : Shape(f) = "bad"
    /\ ~CyclicLineage
    /\ pc = "error"
    /\ stdout = <<>>

(***************************************************************************)
(* C5  termination when parents are older than their children.             *)
(***************************************************************************)
\* every file of the directory names only parent identifiers smaller than
\* its own id
Ordered ==
    \A i \in 1..Len(seed_dir) :
        \A k \in 1..Len(RawParents(seed_dir[i])) :
            RawParents(seed_dir[i])[k] < IdOf(seed_dir[i])

Max(S) == CHOOSE x \in S : \A y \in S : y <= x

RECURSIVE Generations(_, _)
\* the number of ancestor generations that name names, a parent
\* identifier without a file being a generation of its own; n bounds the
\* files followed
Generations(name, n) ==
    IF RawParents(name) = <<>> \/ n = 0 THEN 0
    ELSE 1 + Max({IF FilesFor(RawParents(name)[k]) = {} THEN 0
                  ELSE Generations(ParentFile(name, k), n - 1) :
                     k \in 1..Len(RawParents(name))})

\* no file is the argument of two active calls
NoFileTwice ==
    \A i, j \in 1..Len(stack) :
        i < j /\ stack[i].path # None => stack[i].path # stack[j].path

\* C5: when every file names only parent identifiers smaller than its own
\* id, gen_mutation_chain ends on every seed, the number of nested
\* recursive calls never exceeds the number of ancestor generations of the
\* seed (nor its id), and no file is visited as its own ancestor.
C5_OrderedTerminates ==
    /\ [](Started /\ Ordered =>
             /\ Len(stack) <= 1 + Generations(SeedName, Len(seed_dir))
             /\ Shape(SeedName) # "bad" => Len(stack) <= 1 + IdOf(SeedName)
             /\ Len(stack) < MaxDepth
             /\ NoFileTwice)
    /\ (pc = "main" /\ Started /\ Ordered) ~> (pc \in {"export", "done", "error"})

\* in an ordered directory the recursion is as deep as the seed has
\* ancestor generations, three of them
C5_Witness ==
    /\ Started
    /\ Ordered
    /\ Generations(SeedName, Len(seed_dir)) = 3
    /\ Len(stack) = 4

(***************************************************************************)
(* C9  a file that is its own ancestor.                                    *)
(***************************************************************************)
\* the seed is its own located ancestor
SeedOnCycle == Started /\ SeedName \in Ancestors(SeedName)

====
